---- MODULE Spec2Model ----
(***************************************************************************)
(* A model of the two ABAP remediation endpoints of this repository:       *)
(*   src/app/main.py   /remediate-mb-txns  (obsolete MB transaction rule)  *)
(*   src/app/main1.py  /remediate-array    (VBRK/VBRP SELECT rule)         *)
(* Source text is a TLA+ string; offsets are Python's (0-based, half-open).*)
(* The regular expressions are modelled by what Python's backtracking      *)
(* matcher returns for them: the leftmost match, and among the matches at  *)
(* one start the first in the order greedy / lazy / alternation try them.  *)
(* What takes a text apart is written as a function f[t \in STRING], so    *)
(* that its argument is a value when the body reads it.                    *)
(***************************************************************************)
EXTENDS Integers, Sequences, FiniteSets, TLC

(***************************************************************************)
(* Text primitives (Python str operations).                                *)
(***************************************************************************)

\* s[i] for 0 <= i < len(s)
At(s, i) == SubSeq(s, i + 1, i + 1)

Min2(a, b) == IF a <= b THEN a ELSE b

Max2(a, b) == IF a >= b THEN a ELSE b

SetMin(S) == CHOOSE x \in S : \A y \in S : x <= y

SetMax(S) == CHOOSE x \in S : \A y \in S : x >= y

\* s[a:b] for offsets a, b >= 0, which Python clamps to len(s)
Slice(s, a, b) ==
  IF Min2(a, Len(s)) >= Min2(b, Len(s)) THEN ""
  ELSE SubSeq(s, Min2(a, Len(s)) + 1, Min2(b, Len(s)))

LowerAlpha == "abcdefghijklmnopqrstuvwxyz"

UpperAlpha == "ABCDEFGHIJKLMNOPQRSTUVWXYZ"

Digits == "0123456789"

CharsOf(s) == { At(s, k) : k \in 0..(Len(s) - 1) }

\* the case folding re.IGNORECASE and str.upper() perform on ASCII letters
UpperMap ==
  [c \in CharsOf(LowerAlpha) |->
     LET k == CHOOSE k \in 0..25 : At(LowerAlpha, k) = c IN At(UpperAlpha, k)]

UpperChar(c) == IF c \in DOMAIN UpperMap THEN UpperMap[c] ELSE c

\* str.upper(), by halves
upper[s \in STRING] ==
  IF Len(s) = 0 THEN ""
  ELSE IF Len(s) = 1 THEN UpperChar(s)
  ELSE upper[SubSeq(s, 1, Len(s) \div 2)] \o upper[SubSeq(s, Len(s) \div 2 + 1, Len(s))]

\* \w : letters, digits, underscore
WordChars == CharsOf(LowerAlpha) \cup CharsOf(UpperAlpha) \cup CharsOf(Digits) \cup {"_"}

\* \s : white space
SpaceChars == {" ", "\n", "\t", "\r"}

\* [\w\s,*] : the class of the (?P<fields>...) group
FieldChars == WordChars \cup SpaceChars \cup {",", "*"}

\* [\w@()\->] : the class of the into_tab / into_wa groups
DestChars == WordChars \cup {"@", "(", ")", "-", ">"}

\* ['"]
Quotes == {"'", "\""}

\* the offset where the longest run of characters of class S starting at p ends
RunEnd(s, p, S) ==
  IF p >= Len(s) THEN p
  ELSE CHOOSE q \in p..Len(s) :
         /\ q = Len(s) \/ At(s, q) \notin S
         /\ \A r \in p..(q - 1) : At(s, r) \in S

\* under re.IGNORECASE the literal kw (upper case) stands at offset p of t
KwAt(t, p, kw) ==
  /\ p >= 0
  /\ p + Len(kw) <= Len(t)
  /\ \A k \in 0..(Len(kw) - 1) : UpperChar(At(t, p + k)) = At(kw, k)

\* no match / None
NoMatch == [found |-> FALSE]

(***************************************************************************)
(* SELECT_RE (main1.py), flags IGNORECASE | DOTALL | VERBOSE:              *)
(*   (?P<full> SELECT\s+(?:SINGLE\s+)? (?P<fields>[\w\s,*]+)               *)
(*             \s+FROM\s+(?P<table>\w+) (?P<middle>.*?)                    *)
(*             (?: INTO\s+TABLE\s+(?P<into_tab>[\w@()\->]+)                *)
(*               | INTO\s+(?P<into_wa>[\w@()\->]+) )                       *)
(*             (?P<tail>.*?) )\.                                           *)
(***************************************************************************)

\* the offset of the first "." at or after offset d, or -1: where the lazy
\* (?P<tail>.*?) followed by \. stops (DOTALL: the tail crosses newlines)
PeriodFrom(t, d) ==
  IF \A q \in d..(Len(t) - 1) : At(t, q) # "." THEN -1
  ELSE CHOOSE q \in d..(Len(t) - 1) :
         /\ At(t, q) = "."
         /\ \A r \in d..(q - 1) : At(t, r) # "."

\* INTO\s+TABLE\s+(?P<into_tab>...) (?P<tail>.*?) \. with INTO\s+ ending at j
IntoTable[t \in STRING, j \in Nat] ==
  LET k    == RunEnd(t, j + 5, SpaceChars)
      d    == RunEnd(t, k, DestChars)
      stop == PeriodFrom(t, d)
  IN  IF KwAt(t, j, "TABLE") /\ k > j + 5 /\ d > k /\ stop >= 0
      THEN [found |-> TRUE, into_tab |-> Slice(t, k, d), into_wa |-> "", stop |-> stop]
      ELSE NoMatch

\* INTO\s+(?P<into_wa>...) (?P<tail>.*?) \. with INTO\s+ ending at j
IntoWa[t \in STRING, j \in Nat] ==
  LET d    == RunEnd(t, j, DestChars)
      stop == PeriodFrom(t, d)
  IN  IF d > j /\ stop >= 0
      THEN [found |-> TRUE, into_tab |-> "", into_wa |-> Slice(t, j, d), stop |-> stop]
      ELSE NoMatch

\* The destination alternation tried at offset i. INTO\s+TABLE\s+<dest> is tried
\* first and INTO\s+<dest> only when it fails. \s+ ends where the white space
\* ends (what follows is no white space), <dest> is the whole run of its class
\* ("." is not in the class, so a shorter one reaches no other terminator).
IntoAlt[t \in STRING, i \in Nat] ==
  LET j == RunEnd(t, i + 4, SpaceChars)
  IN  IF ~KwAt(t, i, "INTO") \/ j = i + 4 THEN NoMatch
      ELSE IF IntoTable[t, j].found THEN IntoTable[t, j]
      ELSE IntoWa[t, j]

\* the offsets at which the destination alternation (and the rest) can match
IntoOffsets[t \in STRING] ==
  { i \in 0..(Len(t) - 1) : KwAt(t, i, "INTO") /\ IntoAlt[t, i].found }

\* The offsets g of a FROM keyword that SELECT at offset p can use:
\*   SELECT\s+(?:SINGLE\s+)?[\w\s,*]+\s+  must cover exactly t[p+6 : g].
\* t[p+6] is white space (the first \s+), t[g-1] is white space (the last \s+),
\* every character between is of the fields class (white space and the letters
\* of SINGLE are of that class too), and fields keeps at least one character,
\* so g >= p+9. Then \s+(?P<table>\w+) follows FROM, and a destination
\* alternation must match somewhere after the first character of the table.
FromOffsets[t \in STRING, p \in Nat, I \in SUBSET Nat] ==
  { g \in (p + 9)..(Len(t) - 1) :
      /\ KwAt(t, g, "FROM")
      /\ At(t, p + 6) \in SpaceChars
      /\ RunEnd(t, p + 6, FieldChars) >= g
      /\ At(t, g - 1) \in SpaceChars
      /\ LET ts == RunEnd(t, g + 4, SpaceChars)
         IN  /\ ts > g + 4
             /\ RunEnd(t, ts, WordChars) > ts
             /\ \E i \in I : i > ts }

\* the match of SELECT_RE at offset p whose table is t[ts:te], with the
\* destination alternation `into`
SelectMatch(t, p, ts, te, into) ==
  [found |-> TRUE,
   full |-> Slice(t, p, into.stop),
   table |-> Slice(t, ts, te),
   into_tab |-> into.into_tab,
   into_wa |-> into.into_wa,
   start |-> p,
   end |-> into.stop + 1]

\* SELECT_RE.match at offset p, I being IntoOffsets[t]. The greedy fields
\* group gives back characters only as far as it must, so the FROM used is the
\* last usable one (g); the greedy table is the longest prefix of its \w run
\* that still leaves a destination alternation after it (te); the lazy middle
\* stops at the first such alternation (i).
SelectAt[t \in STRING, p \in Nat, I \in SUBSET Nat] ==
  IF ~KwAt(t, p, "SELECT") THEN NoMatch
  ELSE
    LET G == FromOffsets[t, p, I]
    IN  IF G = {} THEN NoMatch
        ELSE
          LET g  == SetMax(G)
              ts == RunEnd(t, g + 4, SpaceChars)
              te == Min2(RunEnd(t, ts, WordChars), SetMax(I))
              i  == SetMin({ x \in I : x >= te })
          IN  SelectMatch(t, p, ts, te, IntoAlt[t, i])

\* the offsets >= pos at which SELECT_RE matches
SelectStarts(t, pos, I) ==
  { p \in pos..(Len(t) - 1) : KwAt(t, p, "SELECT") /\ SelectAt[t, p, I].found }

\* a match of SELECT_RE
SelectMatches ==
  [found : {TRUE}, full : STRING, table : STRING, into_tab : STRING, into_wa : STRING,
   start : Nat, end : Nat]

\* one element of find_selects' list: "text" is group "full" (without the "."),
\* "span" is the span of group 0 (with the ".")
SelectRecord[m \in SelectMatches] ==
  [text |-> m.full,
   table |-> m.table,
   target_type |-> IF m.into_tab # "" THEN "itab" ELSE "wa",
   target_name |-> IF m.into_tab # "" THEN m.into_tab ELSE m.into_wa,
   span |-> <<m.start, m.end>>]

\* SELECT_RE.finditer(txt) from offset pos: the leftmost match, then on from
\* the end of that match
SelectFinditer[t \in STRING, pos \in Nat, I \in SUBSET Nat] ==
  LET S == SelectStarts(t, pos, I)
  IN  IF S = {} THEN <<>>
      ELSE LET m == SelectAt[t, SetMin(S), I]
           IN  <<SelectRecord[m]>> \o SelectFinditer[t, m.end, I]

find_selects(txt) == SelectFinditer[txt, 0, IntoOffsets[txt]]

(***************************************************************************)
(* ensure_draft_filter, build_replacement_stmt, apply_span_replacements    *)
(* (main1.py).                                                             *)
(***************************************************************************)

\* the tables of SAP Note 2768887
WatchList == {"VBRK", "VBRP"}

\* \b at offset p: exactly one of t[p-1], t[p] is a \w character
WordBoundary(t, p) ==
  (p > 0 /\ At(t, p - 1) \in WordChars) # (p < Len(t) /\ At(t, p) \in WordChars)

\* re.search(r"\b<kw>\b", t, re.IGNORECASE): the offset of the first hit, or -1
SearchWord[t \in STRING, kw \in STRING] ==
  LET H == { p \in 0..(Len(t) - Len(kw)) :
               KwAt(t, p, kw) /\ WordBoundary(t, p) /\ WordBoundary(t, p + Len(kw)) }
  IN  IF H = {} THEN -1 ELSE SetMin(H)

\* the DRAFT search without re.IGNORECASE
HasDraftFilterSameCase(sel_stmt, table_up) ==
  \E p \in 0..(Len(sel_stmt) - Len(table_up) - 6) :
    /\ Slice(sel_stmt, p, p + Len(table_up) + 6) = table_up \o "-DRAFT"
    /\ LET q == RunEnd(sel_stmt, p + Len(table_up) + 6, SpaceChars)
       IN  q < Len(sel_stmt) /\ At(sel_stmt, q) = "="

\* re.search(rf"{table_up}-DRAFT\s*=\s*['\"]?\s?['\"]?", sel_stmt, re.IGNORECASE):
\* everything after "=" is optional
HasDraftFilter(sel_stmt, table_up) ==
  \E p \in 0..(Len(sel_stmt) - Len(table_up) - 6) :
    /\ KwAt(sel_stmt, p, table_up \o "-DRAFT")
    /\ LET q == RunEnd(sel_stmt, p + Len(table_up) + 6, SpaceChars)
       IN  q < Len(sel_stmt) /\ At(sel_stmt, q) = "="

\* str.rstrip("."): without its trailing periods
RstripPeriod[s \in STRING] ==
  Slice(s, 0, SetMin({ k \in 0..Len(s) : \A q \in k..(Len(s) - 1) : At(s, q) = "." }))

\* ensure_draft_filter once table.upper() is in the watch list
EnsureDraft[sel_stmt \in STRING, table_up \in STRING, where_start \in Int, into_start \in Int] ==
  IF HasDraftFilter(sel_stmt, table_up) THEN sel_stmt
  ELSE IF where_start >= 0
  THEN Slice(sel_stmt, 0, where_start + 5)
         \o " " \o table_up \o "-DRAFT = SPACE AND"
         \o Slice(sel_stmt, where_start + 5, Len(sel_stmt))
  ELSE IF into_start >= 0
  THEN Slice(sel_stmt, 0, into_start)
         \o " WHERE " \o table_up \o "-DRAFT = SPACE "
         \o Slice(sel_stmt, into_start, Len(sel_stmt))
  ELSE RstripPeriod[sel_stmt] \o " WHERE " \o table_up \o "-DRAFT = SPACE."

\* ensure_draft_filter without its WHERE branch: the condition always goes
\* before INTO, as a WHERE clause of its own
ensure_draft_before_into(sel_stmt, table) ==
  IF upper[table] \notin WatchList THEN sel_stmt
  ELSE EnsureDraft[sel_stmt, upper[table], -1, SearchWord[sel_stmt, "INTO"]]

ensure_draft_filter(sel_stmt, table) ==
  IF upper[table] \notin WatchList THEN sel_stmt
  ELSE EnsureDraft[sel_stmt, upper[table],
                   SearchWord[sel_stmt, "WHERE"], SearchWord[sel_stmt, "INTO"]]

\* re.sub(r"\s+", " ", s) on s[lo:hi], by halves: every white-space run of s
\* becomes one " " (written where the run starts)
CollapseRange[s \in STRING, lo \in Nat, hi \in Nat] ==
  IF lo >= hi THEN ""
  ELSE IF hi = lo + 1
  THEN IF At(s, lo) \notin SpaceChars THEN At(s, lo)
       ELSE IF lo > 0 /\ At(s, lo - 1) \in SpaceChars THEN "" ELSE " "
  ELSE CollapseRange[s, lo, (lo + hi) \div 2] \o CollapseRange[s, (lo + hi) \div 2, hi]

\* re.sub(r"\s+", " ", s)
CollapseSpaces[s \in STRING] == CollapseRange[s, 0, Len(s)]

\* str.strip()
Strip[s \in STRING] ==
  LET lo == RunEnd(s, 0, SpaceChars)
      hi == CHOOSE e \in lo..Len(s) :
              /\ e = lo \/ At(s, e - 1) \notin SpaceChars
              /\ \A r \in e..(Len(s) - 1) : At(s, r) \in SpaceChars
  IN  Slice(s, lo, hi)

build_replacement_stmt(sel_text, table, target_type, target_name) ==
  Strip[CollapseSpaces[ensure_draft_filter(sel_text, table)]]

\* a (span, replacement) pair
ReplPair == [span : Nat \X Nat, repl : STRING]

\* sorted(repls, key=lambda x: x[0][0], reverse=True): stable, so pairs with
\* equal starts keep their order
SortByStartDesc[repls \in Seq(ReplPair)] ==
  IF repls = <<>> THEN <<>>
  ELSE LET x    == repls[Len(repls)]
           rest == SortByStartDesc[SubSeq(repls, 1, Len(repls) - 1)]
           k    == Cardinality({ n \in 1..Len(rest) : rest[n].span[1] >= x.span[1] })
       IN  SubSeq(rest, 1, k) \o <<x>> \o SubSeq(rest, k + 1, Len(rest))

\* out = out[:s] + r + out[e:]
Splice(out, pair) ==
  Slice(out, 0, pair.span[1]) \o pair.repl \o Slice(out, pair.span[2], Len(out))

\* the for loop of apply_span_replacements over the sorted pairs
SpliceAll[out \in STRING, sorted \in Seq(ReplPair)] ==
  IF sorted = <<>> THEN out
  ELSE SpliceAll[Splice(out, Head(sorted)), Tail(sorted)]

\* apply_span_replacements without the sort: the pairs in the order given
apply_in_given_order(source, repls) == SpliceAll[source, repls]

apply_span_replacements(source, repls) == SpliceAll[source, SortByStartDesc[repls]]

(***************************************************************************)
(* remediate_array (main1.py): the body of its loop over the units.        *)
(***************************************************************************)

\* Optional[str] code that is absent
None == "None"

\* an element of find_selects' list
SelRecord ==
  [text : STRING, table : STRING, target_type : {"itab", "wa"},
   target_name : STRING, span : Nat \X Nat]

\* sel_info of one watch-listed occurrence; suggested_statement is <<>> for
\* None and <<new_stmt>> when new_stmt != sel["text"]
SelInfo[sel \in SelRecord] ==
  [table |-> sel.table,
   target_type |-> sel.target_type,
   target_name |-> sel.target_name,
   start_char_in_unit |-> sel.span[1],
   end_char_in_unit |-> sel.span[2],
   suggested_statement |->
     LET new_stmt == build_replacement_stmt(sel.text, sel.table, sel.target_type, sel.target_name)
     IN  IF new_stmt # sel.text THEN <<new_stmt>> ELSE <<>>]

\* the occurrences the loop keeps: sel["table"].upper() in ("VBRK", "VBRP")
WatchListed(selects) ==
  SelectSeq(selects, LAMBDA sel : upper[sel.table] \in WatchList)

\* selects_metadata of one unit's code
SelectsMetadata(src) ==
  LET kept == WatchListed(find_selects(src))
  IN  [n \in 1..Len(kept) |-> SelInfo[kept[n]]]

\* replacements, from the records that got a suggestion: (span, new_stmt)
ReplacementsOf(meta) ==
  LET changed == SelectSeq(meta, LAMBDA m : m.suggested_statement # <<>>)
  IN  [n \in 1..Len(changed) |->
         [span |-> <<changed[n].start_char_in_unit, changed[n].end_char_in_unit>>,
          repl |-> changed[n].suggested_statement[1]]]

(***************************************************************************)
(* main.py: the obsolete MB transaction rule.                              *)
(*   MB_TXN_RE, flags IGNORECASE | VERBOSE:                                *)
(*   (?P<full> (?P<stmt>CALL\s+TRANSACTION|SUBMIT) \s+                     *)
(*             ['"]?(?P<txn>MB01|MB02|...)['"]? \s*\.? )                   *)
(***************************************************************************)

\* the sixth entry is written with Greek capitals in the source
OBSOLETE_MB_TXNS ==
  << "MB01", "MB02", "MB03", "MB04", "MB05", "ΜΒΘΑ", "MB11",
     "MB1A", "MB18", "MBC", "MB31", "MBNL", "MBRL", "MBSF",
     "MBSL", "MBST", "MBSU" >>

\* (?P<stmt>CALL\s+TRANSACTION|SUBMIT) at offset p: the offset after it, or -1
StmtEnd(t, p) ==
  LET w == RunEnd(t, p + 4, SpaceChars)
  IN  IF KwAt(t, p, "CALL") /\ w > p + 4 /\ KwAt(t, w, "TRANSACTION") THEN w + 11
      ELSE IF KwAt(t, p, "SUBMIT") THEN p + 6
      ELSE -1

\* the alternation (?P<txn>...) at offset q: the index of the first code of the
\* list that stands there, or 0
TxnIndex(t, q) ==
  LET C == { n \in 1..Len(OBSOLETE_MB_TXNS) : KwAt(t, q, OBSOLETE_MB_TXNS[n]) }
  IN  IF C = {} THEN 0 ELSE SetMin(C)

\* what follows the code at offset c: ['"]? \s* \.? , each greedy and each
\* optional, so nothing is given back
TxnTailEnd(t, c) ==
  LET c1 == IF c < Len(t) /\ At(t, c) \in Quotes THEN c + 1 ELSE c
      c2 == RunEnd(t, c1, SpaceChars)
  IN  IF c2 < Len(t) /\ At(t, c2) = "." THEN c2 + 1 ELSE c2

\* \s+['"]?(?P<txn>...)['"]?\s*\.? after the statement keyword t[p:v]. The
\* opening quote is taken when there is one (without it the code would have to
\* start at the quote).
TxnAfterStmt[t \in STRING, p \in Nat, v \in Nat] ==
  LET w == RunEnd(t, v, SpaceChars)
      q == IF w < Len(t) /\ At(t, w) \in Quotes THEN w + 1 ELSE w
      n == TxnIndex(t, q)
      e == TxnTailEnd(t, q + Len(OBSOLETE_MB_TXNS[n]))
  IN  IF w = v \/ n = 0 THEN NoMatch
      ELSE [found |-> TRUE,
            full |-> Slice(t, p, e),
            stmt |-> Slice(t, p, v),
            txn |-> Slice(t, q, q + Len(OBSOLETE_MB_TXNS[n])),
            start |-> p,
            end |-> e]

\* MB_TXN_RE.match at offset p
TxnAt[t \in STRING, p \in Nat] ==
  IF StmtEnd(t, p) < 0 THEN NoMatch ELSE TxnAfterStmt[t, p, StmtEnd(t, p)]

\* a suggestion that keeps an obsolete code
suggest_obsolete(stmt) ==
  IF Slice(upper[stmt], 0, 6) = "SUBMIT" THEN "SUBMIT MB01."
  ELSE "CALL TRANSACTION 'MB01'."

suggest_replacement(stmt) ==
  IF Slice(upper[stmt], 0, 6) = "SUBMIT" THEN "SUBMIT MIGO."
  ELSE "CALL TRANSACTION 'MIGO'."

\* the offsets >= pos at which MB_TXN_RE matches
TxnStarts(t, pos) ==
  { p \in pos..(Len(t) - 1) : StmtEnd(t, p) >= 0 /\ TxnAt[t, p].found }

\* a match of MB_TXN_RE
TxnMatches ==
  [found : {TRUE}, full : STRING, stmt : STRING, txn : STRING, start : Nat, end : Nat]

\* one element of find_mb_txn_usage's list
TxnRecord[m \in TxnMatches] ==
  [full |-> m.full,
   stmt |-> m.stmt,
   txn |-> m.txn,
   suggested_statement |-> suggest_replacement(m.stmt),
   span |-> <<m.start, m.end>>]

\* MB_TXN_RE.finditer(txt) from offset pos: the leftmost match, then on from
\* the end of that match
TxnFinditer[t \in STRING, pos \in Nat] ==
  LET S == TxnStarts(t, pos)
  IN  IF S = {} THEN <<>>
      ELSE LET m == TxnAt[t, SetMin(S)]
           IN  <<TxnRecord[m]>> \o TxnFinditer[t, m.end]

find_mb_txn_usage(txt) == TxnFinditer[txt, 0]

\* an element of find_mb_txn_usage's list
TxnUsage ==
  [full : STRING, stmt : STRING, txn : STRING, suggested_statement : STRING,
   span : Nat \X Nat]

\* the metadata record of one match
TxnInfo[m \in TxnUsage] ==
  [table |-> "None",
   target_type |-> "None",
   target_name |-> "None",
   obsolete_txn |-> m.txn,
   start_char_in_unit |-> m.span[1],
   end_char_in_unit |-> m.span[2],
   suggested_statement |-> <<m.suggested_statement>>]

\* metadata of one unit's code in remediate_mb_txns: one record per match
TxnMetadata(src) ==
  LET matches == find_mb_txn_usage(src)
  IN  [n \in 1..Len(matches) |-> TxnInfo[matches[n]]]

\* replacements of remediate_mb_txns: one (span, suggested_statement) per match
TxnReplacements(src) ==
  LET matches == find_mb_txn_usage(src)
  IN  [n \in 1..Len(matches) |->
         [span |-> matches[n].span, repl |-> matches[n].suggested_statement]]

(***************************************************************************)
(* The requests: a list of units, each unit's code absent (None) or a text *)
(* put together from the statements below. The other fields of a Unit      *)
(* (pgm_name, inc_name, ...) are echoed and read by nothing.               *)
(***************************************************************************)

\* units of one request
MaxUnits == 2

\* size of one request: the statements of all its units, a unit without
\* statements counting as one
MaxPieces == 2

SelectPieces ==
  << "SELECT * FROM VBRK INTO TABLE @DATA(lt_vbrk).",
     "SELECT a, b FROM VBRP WHERE id = 1 INTO @ls_vbrp.",
     "SELECT * FROM MARA INTO TABLE lt.",
     "select single x  from vbrk where vbrk-draft = ' ' into ls.",
     "SELECT a FROM VBRK\n WHERE b = 1\n INTO TABLE lt.",
     "SELECT a FROM VBRK.",
     "SELECT a FROM VBRP WHERE b FROM VBRK INTO x." >>

TxnPieces ==
  << "CALL TRANSACTION 'MB01'.",
     "SUBMIT MB11.",
     "submit mb1a and return.",
     "CALL  TRANSACTION\n \"MBST\" .",
     "CALL TRANSACTION 'MIGO'." >>

Endpoints == {"remediate-array", "remediate-mb-txns"}

PiecesOf(ep) == IF ep = "remediate-array" THEN SelectPieces ELSE TxnPieces

RECURSIVE CodesOf(_, _)
\* the texts made of exactly c statements of P, one after the other
CodesOf(P, c) ==
  IF c = 0 THEN {""}
  ELSE { P[n] \o rest : n \in 1..Len(P), rest \in CodesOf(P, c - 1) }

RECURSIVE RequestsOf(_, _, _)
\* the requests of exactly n units of size `budget` at most
RequestsOf(P, n, budget) ==
  IF n = 0 THEN {<<>>}
  ELSE UNION { { <<[code |-> code]>> \o rest :
                   code \in CodesOf(P, c) \cup (IF c = 0 THEN {None} ELSE {}),
                   rest \in RequestsOf(P, n - 1, budget - Max2(c, 1)) } :
               c \in { c \in 0..budget : Max2(c, 1) <= budget } }

(***************************************************************************)
(* The endpoints: each step is one pass of the loop over the units.        *)
(***************************************************************************)
VARIABLES
  endpoint,   \* the endpoint the request was posted to
  units,      \* the request body
  results,    \* the list the handler builds and returns
  patched,    \* remediate_array's discarded apply_span_replacements result
  source,     \* apply_span_replacements called on its own: its text,
  repls,      \* its list of (span, replacement) pairs,
  out         \* and what it returned: <<>> before the call, <<text>> after

vars == <<endpoint, units, results, patched, source, repls, out>>

Init ==
  /\ endpoint \in Endpoints
  /\ \E n \in 0..MaxUnits : units \in RequestsOf(PiecesOf(endpoint), n, MaxPieces)
  /\ results = <<>>
  /\ patched = <<>>
  /\ source = ""
  /\ repls = <<>>
  /\ out = <<>>

\* src = u.code or ""
SrcOf(u) == IF u.code = None THEN "" ELSE u.code

\* one pass of the loop of remediate_array (main1.py)
RemediateArrayStep ==
  /\ endpoint = "remediate-array"
  /\ Len(results) < Len(units)
  /\ \E meta \in {SelectsMetadata(SrcOf(units[Len(results) + 1]))} :
       /\ results' = Append(results, [code |-> units[Len(results) + 1].code,
                                      findings |-> meta])
       /\ patched' = Append(patched,
                            apply_span_replacements(SrcOf(units[Len(results) + 1]),
                                                    ReplacementsOf(meta)))
  /\ UNCHANGED <<endpoint, units, source, repls, out>>

\* remediate_mb_txns with `metadata` created once, before the loop over the
\* units, instead of once per unit
RemediateMbTxnsStepSharedList ==
  /\ endpoint = "remediate-mb-txns"
  /\ Len(results) < Len(units)
  /\ results' = Append(results,
       [code |-> units[Len(results) + 1].code,
        findings |-> (IF results = <<>> THEN <<>> ELSE results[Len(results)].findings)
                       \o TxnMetadata(SrcOf(units[Len(results) + 1]))])
  /\ UNCHANGED <<endpoint, units, patched, source, repls, out>>

\* one pass of the loop of remediate_mb_txns (main.py)
RemediateMbTxnsStep ==
  /\ endpoint = "remediate-mb-txns"
  /\ Len(results) < Len(units)
  /\ results' = Append(results, [code |-> units[Len(results) + 1].code,
                                 findings |-> TxnMetadata(SrcOf(units[Len(results) + 1]))])
  /\ UNCHANGED <<endpoint, units, patched, source, repls, out>>

Next == RemediateArrayStep \/ RemediateMbTxnsStep

Spec == Init /\ [][Next]_vars

(***************************************************************************)
(* apply_span_replacements called on its own, with pairs in any order.     *)
(***************************************************************************)

\* pairs of one call
MaxRepls == 2

\* the text of the call
ApplyTexts == {"abcd"}

\* the replacement texts: shorter than, as long as and longer than a span
ReplTexts == {"", "X", "YZ"}

\* the pairs whose span lies within the text
PairsWithin(text) ==
  { pair \in [span : (0..Len(text)) \X (0..Len(text)), repl : ReplTexts] :
      pair.span[1] <= pair.span[2] }

InitApply ==
  /\ endpoint = "none"
  /\ units = <<>>
  /\ results = <<>>
  /\ patched = <<>>
  /\ source \in ApplyTexts
  /\ \E n \in 0..MaxRepls : repls \in [1..n -> PairsWithin(source)]
  /\ out = <<>>

\* the call
ApplySpanReplacements ==
  /\ out = <<>>
  /\ out' = <<apply_span_replacements(source, repls)>>
  /\ UNCHANGED <<endpoint, units, results, patched, source, repls>>

NextApply == ApplySpanReplacements

SpecApply == InitApply /\ [][NextApply]_vars

(***************************************************************************)
(* The properties of the specification, stated over the units the handler  *)
(* has gone through.                                                       *)
(***************************************************************************)

\* the elements of a list
Range(seq) == { seq[k] : k \in 1..Len(seq) }

\* the units remediate_array has gone through
ArrayUnits == IF endpoint = "remediate-array" THEN 1..Len(results) ELSE {}

\* the units remediate_mb_txns has gone through
TxnUnits == IF endpoint = "remediate-mb-txns" THEN 1..Len(results) ELSE {}

\* C1: for every occurrence that either matcher reports in a unit's code, the
\* code at the reported half-open span [start, end) is exactly the reported
\* full matched text.
C1_SpanIsFullText ==
  /\ \A n \in ArrayUnits : \A sel \in Range(find_selects(SrcOf(units[n]))) :
       Slice(SrcOf(units[n]), sel.span[1], sel.span[2]) = sel.text
  /\ \A n \in TxnUnits : \A m \in Range(find_mb_txn_usage(SrcOf(units[n]))) :
       Slice(SrcOf(units[n]), m.span[1], m.span[2]) = m.full

\* C5: a SELECT match stays within one statement: no period stands between
\* its opening SELECT and the period that ends the match, so a SELECT without
\* a destination before its own period is not matched.
C5_MatchWithinOneStatement ==
  \A n \in ArrayUnits : \A sel \in Range(find_selects(SrcOf(units[n]))) :
    \A q \in sel.span[1]..(sel.span[2] - 2) : At(SrcOf(units[n]), q) # "."

\* C10: the text of every transaction match ends with the period that ends
\* the statement: verb and code not followed by a period are not matched.
C10_TxnMatchEndsWithPeriod ==
  \A n \in TxnUnits : \A m \in Range(find_mb_txn_usage(SrcOf(units[n]))) :
    At(m.full, Len(m.full) - 1) = "."

\* the code is one watch-listed SELECT with a destination, without WHERE and
\* without DRAFT filter (scenario 3)
SingleSelectWithoutWhere(src) ==
  \E sel \in Range(find_selects(src)) :
    /\ sel.span = <<0, Len(src)>>
    /\ upper[sel.table] \in WatchList
    /\ SearchWord[sel.text, "WHERE"] = -1
    /\ ~HasDraftFilter(sel.text, upper[sel.table])

\* C4: round trip of scenario 3: scanning the text rewritten with the reported
\* (span, suggested_statement) pairs finds a statement of the same table that
\* has its DRAFT filter and that ensure_draft_filter leaves as it is.
C4_RoundTrip ==
  \A n \in ArrayUnits :
    SingleSelectWithoutWhere(SrcOf(units[n])) =>
      \E again \in Range(find_selects(patched[n])) :
        /\ upper[again.table] = upper[find_selects(SrcOf(units[n]))[1].table]
        /\ HasDraftFilter(again.text, upper[again.table])
        /\ ensure_draft_filter(again.text, again.table) = again.text

\* C2: scanning the text rewritten with all the suggested statements reports
\* no watch-listed occurrence that lacks its <TABLE>-DRAFT filter, so none
\* gets a new condition.
C2_SelectIdempotent ==
  \A n \in ArrayUnits : \A again \in Range(WatchListed(find_selects(patched[n]))) :
    HasDraftFilter(again.text, upper[again.table])

\* C3: replacing every span find_mb_txn_usage reports by its suggested
\* statement, from right to left, gives a text in which find_mb_txn_usage
\* finds nothing.
C3_TxnIdempotent ==
  \A n \in TxnUnits :
    find_mb_txn_usage(apply_span_replacements(SrcOf(units[n]),
                                              TxnReplacements(SrcOf(units[n])))) = <<>>

\* a unit with two obsolete transactions has gone through remediate_mb_txns
C3_TwoTxnsReplaced ==
  \E n \in TxnUnits : Len(results[n].findings) >= 2

\* re.sub(r"\s+", " ", s).strip(): white-space runs collapsed to one space,
\* the ends trimmed
Normalised(s) == Strip[CollapseSpaces[s]]

\* the text holds "<TABLE>-DRAFT =" in any casing
ContainsDraftEquals(text, table_up) ==
  \E p \in 0..(Len(text) - Len(table_up) - 8) : KwAt(text, p, table_up \o "-DRAFT =")

\* C6: for a matched statement of a watch-listed table T that holds
\* "T-DRAFT =" in any casing, build_replacement_stmt returns the statement
\* with nothing but its white space normalised: nothing is inserted.
C6_ExistingDraftKept ==
  \A n \in ArrayUnits : \A sel \in Range(WatchListed(find_selects(SrcOf(units[n])))) :
    ContainsDraftEquals(sel.text, upper[sel.table]) =>
      build_replacement_stmt(sel.text, sel.table, sel.target_type, sel.target_name)
        = Normalised(sel.text)

\* a statement with a lower-case DRAFT filter and a white-space run has been
\* matched: its suggestion differs from its text by white space only
C6_DraftStatementSeen ==
  \E n \in ArrayUnits : \E sel \in Range(WatchListed(find_selects(SrcOf(units[n])))) :
    /\ ContainsDraftEquals(sel.text, upper[sel.table])
    /\ ~ContainsDraftEquals(sel.text, sel.table)
    /\ Normalised(sel.text) # sel.text
    /\ \E m \in Range(results[n].findings) :
         /\ m.start_char_in_unit = sel.span[1]
         /\ m.suggested_statement = <<Normalised(sel.text)>>

\* the suggestion the claim about WHERE describes for the statement text, w
\* being the offset of its first WHERE: the condition right after WHERE
InsertedAfterWhere(text, table_up, w) ==
  Slice(text, 0, w + 5) \o " " \o table_up \o "-DRAFT = SPACE AND"
    \o Slice(text, w + 5, Len(text))

\* the matched statements of a unit's code that are of a watch-listed table,
\* hold a WHERE and hold no DRAFT filter
WhereStatements(src) ==
  { sel \in Range(WatchListed(find_selects(src))) :
      /\ SearchWord[sel.text, "WHERE"] >= 0
      /\ ~HasDraftFilter(sel.text, upper[sel.table]) }

\* C7 as stated: the suggestion is the statement with "T-DRAFT = SPACE AND"
\* right after WHERE, the text before WHERE and the predicate after it being
\* exactly those of the statement.
C7_InsertedAfterWhereVerbatim ==
  \A n \in ArrayUnits : \A sel \in WhereStatements(SrcOf(units[n])) :
    build_replacement_stmt(sel.text, sel.table, sel.target_type, sel.target_name)
      = InsertedAfterWhere(sel.text, upper[sel.table], SearchWord[sel.text, "WHERE"])

\* C7: for a matched statement of a watch-listed table T with a WHERE and
\* without DRAFT filter, the suggestion is the statement with
\* "T-DRAFT = SPACE AND" right after its first WHERE, the text before WHERE
\* and the predicate after it unchanged but for the white-space normalisation
\* of the whole suggestion.
C7_InsertedAfterWhere ==
  \A n \in ArrayUnits : \A sel \in WhereStatements(SrcOf(units[n])) :
    build_replacement_stmt(sel.text, sel.table, sel.target_type, sel.target_name)
      = Normalised(InsertedAfterWhere(sel.text, upper[sel.table],
                                      SearchWord[sel.text, "WHERE"]))

\* a statement with WHERE, without DRAFT filter and with a white-space run has
\* been matched and its suggestion, with the condition after WHERE, reported
C7_WhereStatementSeen ==
  \E n \in ArrayUnits : \E sel \in WhereStatements(SrcOf(units[n])) :
    /\ CollapseSpaces[sel.text] # sel.text
    /\ \E m \in Range(results[n].findings) :
         /\ m.start_char_in_unit = sel.span[1]
         /\ m.suggested_statement =
              <<Normalised(InsertedAfterWhere(sel.text, upper[sel.table],
                                              SearchWord[sel.text, "WHERE"]))>>

\* C9: the handler's list has one entry per unit it has gone through, in the
\* order of the request; the findings of a unit are
\* those of its own code, none for an absent or empty code; they come from
\* left to right, with non-empty spans that do not overlap.
C9_UnitsInOrderAndIndependent ==
  /\ Len(results) <= Len(units)
  /\ \A n \in 1..Len(results) :
       /\ results[n].code = units[n].code
       /\ results[n].findings =
            (IF endpoint = "remediate-array" THEN SelectsMetadata(SrcOf(units[n]))
             ELSE TxnMetadata(SrcOf(units[n])))
       /\ units[n].code \in {None, ""} => results[n].findings = <<>>
       /\ \A k \in 1..Len(results[n].findings) :
            results[n].findings[k].start_char_in_unit
              < results[n].findings[k].end_char_in_unit
       /\ \A k \in 1..(Len(results[n].findings) - 1) :
            results[n].findings[k].end_char_in_unit
              <= results[n].findings[k + 1].start_char_in_unit

\* a request of two units is done: the first unit has a finding, the second,
\* without code, has none
C9_TwoUnitsDone ==
  /\ Len(units) = 2
  /\ Len(results) = 2
  /\ Len(results[1].findings) >= 1
  /\ units[2].code = None
  /\ results[2].findings = <<>>

\* two spans share a position
Overlap(a, b) == a[1] < b[2] /\ b[1] < a[2]

\* the spans of the pairs are pairwise non-overlapping
NonOverlapping(pairs) ==
  \A i, j \in 1..Len(pairs) : i # j => ~Overlap(pairs[i].span, pairs[j].span)

\* no two pairs start at the same offset
DistinctStarts(pairs) ==
  \A i, j \in 1..Len(pairs) : i # j => pairs[i].span[1] # pairs[j].span[1]

\* the orders in which the pairs stand in the text from left to right
LeftToRight(pairs) ==
  { order \in [1..Len(pairs) -> 1..Len(pairs)] :
      /\ \A i, j \in 1..Len(pairs) : i # j => order[i] # order[j]
      /\ \A i \in 1..(Len(pairs) - 1) :
           /\ pairs[order[i]].span[1] <= pairs[order[i + 1]].span[1]
           /\ pairs[order[i]].span[2] <= pairs[order[i + 1]].span[2] }

RECURSIVE Assembled(_, _, _, _)
\* the text from offset `from` on, the spans of the pairs of `order` replaced
\* and everything between them kept
Assembled(text, pairs, order, from) ==
  IF order = <<>> THEN Slice(text, from, Len(text))
  ELSE Slice(text, from, pairs[Head(order)].span[1])
         \o pairs[Head(order)].repl
         \o Assembled(text, pairs, Tail(order), pairs[Head(order)].span[2])

\* the text with every span replaced by its replacement at once
Simultaneous(text, pairs) ==
  { Assembled(text, pairs, order, 0) : order \in LeftToRight(pairs) }

\* C8 as stated: for pairs in any order whose spans lie within the text and
\* are pairwise non-overlapping, apply_span_replacements returns the text with
\* every span replaced at once and the rest kept.
C8_SimultaneousForNonOverlapping ==
  (out # <<>> /\ NonOverlapping(repls)) => out[1] \in Simultaneous(source, repls)

\* C8: for pairs in any order whose spans lie within the text, are pairwise
\* non-overlapping and start at pairwise distinct offsets,
\* apply_span_replacements returns the text with every span replaced at once
\* and the rest kept.
C8_SimultaneousForDistinctStarts ==
  (out # <<>> /\ NonOverlapping(repls) /\ DistinctStarts(repls))
    => out[1] \in Simultaneous(source, repls)

\* the call is done for two pairs given from left to right, which the sort
\* has to turn round, with text before and after their spans
C8_TwoPairsApplied ==
  /\ out # <<>>
  /\ Len(repls) = 2
  /\ 0 < repls[1].span[1]
  /\ repls[1].span[1] < repls[1].span[2]
  /\ repls[1].span[2] <= repls[2].span[1]
  /\ repls[2].span[1] < repls[2].span[2]
  /\ repls[2].span[2] < Len(source)
  /\ Len(repls[1].repl) # repls[1].span[2] - repls[1].span[1]
  /\ out[1] \in Simultaneous(source, repls)

====
